---------------------------- MODULE Spec2Model ----------------------------
(***************************************************************************)
(* ionLog (src/src/lib.rs): a Logger installed through the `log` 0.3       *)
(* facade.  The model holds the facade's process-wide statics as used by   *)
(* init (log::set_logger), release (log::shutdown_logger) and the logging  *)
(* macros, the Logger's fan-out to the terminal and to the output file,    *)
(* and the part of the environment the calls act on (the file system and   *)
(* standard output).                                                       *)
(*                                                                         *)
(* Spec     : the public calls taken one at a time (one action per call).  *)
(* SpecConc : the same calls issued by several threads, one action per     *)
(*            atomic step of a call.                                       *)
(*                                                                         *)
(* A panic unwinds the calling thread only; the statics keep the values    *)
(* they had when it was raised and the rest of the process goes on.        *)
(***************************************************************************)
EXTENDS Integers, Sequences, FiniteSets, TLC

(***************************************************************************)
(* Bounds                                                                  *)
(***************************************************************************)
\* events that reach Logger::log in one run
MaxEmits == 2
\* the largest short count a file write reports (Ok(n) with n < len)
MaxShort == 1
\* threads of SpecConc
NThreads == 2
\* calls each thread of SpecConc makes
MaxThreadCalls == 2

(***************************************************************************)
(* Data                                                                    *)
(***************************************************************************)
Levels == {"Error", "Warn", "Info", "Debug", "Trace"}

LevelFilters == Levels \cup {"Off"}

\* log::LogLevel / log::LogLevelFilter as usize: Off = 0, Error = 1 .. Trace = 5
LevelOrd(l) ==
    CASE l = "Off"   -> 0
      [] l = "Error" -> 1
      [] l = "Warn"  -> 2
      [] l = "Info"  -> 3
      [] l = "Debug" -> 4
      [] l = "Trace" -> 5

\* Display of log::LogLevel, as format! ("{}", record.level ()) prints it
LevelName(l) ==
    CASE l = "Error" -> "ERROR"
      [] l = "Warn"  -> "WARN"
      [] l = "Info"  -> "INFO"
      [] l = "Debug" -> "DEBUG"
      [] l = "Trace" -> "TRACE"

\* paths a configuration may name; File::create succeeds on those of Creatable
Paths == {"", "log.txt"}

Creatable == {"log.txt"}

LogConfig ==
    [log_to_io : BOOLEAN, log_to_file : BOOLEAN, log_output_path : Paths,
     coloured_output : BOOLEAN, max_log_level : LevelFilters]

\* LogConfig::new
LogConfigNew ==
    [log_to_io |-> TRUE, log_to_file |-> FALSE, log_output_path |-> "",
     coloured_output |-> TRUE, max_log_level |-> "Trace"]

\* log::LogRecord: level, location (module path, line) and message
LogRecord ==
    [level : Levels, module_path : {"app::main"}, line : {42}, args : {"hello"}]

\* outcome of one println!: TRUE written, FALSE the write to stdout failed
TermResults == BOOLEAN

\* outcome of one File write of len bytes: -1 for Err, else the count of Ok(n)
WriteResults(len) == {-1, len} \cup {n \in 1..MaxShort : n < len}

Prefix(s, n) == SubSeq(s, 1, n)

(***************************************************************************)
(* Logger private methods                                                  *)
(***************************************************************************)
\* Logger::format_log_string: "[{} - {}] {}: {}\n"
format_log_string(record) ==
    <<"[", record.module_path, " - ", ToString(record.line), "] ",
      LevelName(record.level), ": ", record.args, "\n">>

\* ansi_term prefix of the colour chosen for a level
ColourCode(l) ==
    CASE l = "Trace" -> "ESC[32m"
      [] l = "Debug" -> "ESC[34m"
      [] l = "Info"  -> "ESC[35m"
      [] l = "Warn"  -> "ESC[33m"
      [] l = "Error" -> "ESC[31m"

ColourReset == "ESC[0m"

ColourCodes == {ColourCode(l) : l \in Levels} \cup {ColourReset}

\* Logger::format_log_colour: the whole line painted in the level's colour
format_log_colour(record, log_string) ==
    <<ColourCode(record.level)>> \o log_string \o <<ColourReset>>

\* what Logger::log hands to println!
TermLine(config, record) ==
    IF config.coloured_output
    THEN format_log_colour(record, format_log_string(record))
    ELSE format_log_string(record)

\* println! ("{}", s): s and a line break
println(out, s) == out \o s \o <<"\n">>

(***************************************************************************)
(* State                                                                   *)
(***************************************************************************)
VARIABLES
    LOG_STATE,             \* log STATE: UNINITIALIZED / INITIALIZING / INITIALIZED
    MAX_LOG_LEVEL_FILTER,  \* log: the global level threshold, 0..5
    LOGGER,                \* log: the installed Box<Log>, NopLogger at first
    REFCOUNT,              \* log: LoggerGuards alive
    files,                 \* file system: path -> [exists, content]
    stdout,                \* bytes printed on the terminal
    handles,               \* open File handles owned by Logger values
    last,                  \* the last call finished and what its caller saw
    hist,                  \* lifecycle as the callers saw it
    pc,                    \* SpecConc: each thread's position in its call
    loc,                   \* SpecConc: each thread's call arguments / locals
    calls,                 \* SpecConc: calls each thread has started
    tally                  \* SpecConc: outcomes of the calls finished

vars ==
    <<LOG_STATE, MAX_LOG_LEVEL_FILTER, LOGGER, REFCOUNT, files, stdout, handles,
      last, hist, pc, loc, calls, tally>>

globals == <<LOG_STATE, MAX_LOG_LEVEL_FILTER, LOGGER, REFCOUNT, files, stdout, handles>>

threadVars == <<pc, loc, calls, tally>>

Threads == 1..NThreads

NopLogger == [kind |-> "NopLogger"]

\* Logger { config: config.clone (), log_output_buffer: BufWriter::new (file) }
Logger(config) ==
    [kind |-> "Logger", config |-> config, log_output_buffer |-> config.log_output_path]

NoCall == [op |-> "none", res |-> "ok"]

InitGlobals ==
    /\ LOG_STATE = "UNINITIALIZED"
    /\ MAX_LOG_LEVEL_FILTER = 0
    /\ LOGGER = NopLogger
    /\ REFCOUNT = 0
    /\ files = [p \in Creatable |->
                    [exists |-> TRUE, content |-> <<"old">>]]
    /\ stdout = <<>>
    /\ handles = 0
    /\ last = NoCall
    /\ hist = [life |-> "fresh", config |-> LogConfigNew, accepted |-> <<>>,
                panicked |-> FALSE]

InitThreads ==
    /\ pc = [t \in Threads |-> "idle"]
    /\ loc = [t \in Threads |-> NoCall]
    /\ calls = [t \in Threads |-> 0]
    /\ tally = [init_ok |-> 0, init_err |-> 0, init_panic |-> 0, release_started |-> FALSE]

Init == InitGlobals /\ InitThreads

(***************************************************************************)
(* The pieces of the calls                                                 *)
(***************************************************************************)
\* a closure that passes the default level instead of the configured one
max_log_level_set_default(config) == LevelOrd(LogConfigNew.max_log_level)

\* max_log_level.set (config.max_log_level)
max_log_level_set(config) == LevelOrd(config.max_log_level)

\* an installation that does not look at the state
set_logger_always_installs(state) == TRUE

\* set_logger installs only from UNINITIALIZED (its compare-and-swap)
set_logger_may_install(state) == state = "UNINITIALIZED"

\* File::create (&config.log_output_path): called whatever log_to_file says
file_create_ok(config) == config.log_output_path \in Creatable

\* File::create creates the file or truncates it
file_created(fs, path) == [fs EXCEPT ![path] = [exists |-> TRUE, content |-> <<>>]]

\* a shutdown that hands the state back for the next set_logger
state_after_shutdown_reusable == "UNINITIALIZED"

\* LOG_STATE as shutdown_logger leaves it: set_logger cannot install again
state_after_shutdown == "INITIALIZING"

\* the level check of the logging macros: lvl <= log::max_log_level ()
macro_level_passes(level, max) == LevelOrd(level) <= max

\* logger (): a guard on the installed logger, only while INITIALIZED
logger_available(state) == state = "INITIALIZED"

\* Logger::enabled: metadata.level () <= self.config.max_log_level
enabled(self, level) == LevelOrd(level) <= LevelOrd(self.config.max_log_level)

\* Logger::log writes to the terminal when log_to_io is set
log_writes_terminal(self) == self.config.log_to_io

\* Logger::log writes to the file when log_to_file is set
log_writes_file(self) == self.config.log_to_file

\* the bytes Logger::log hands to File::write: log_string.as_bytes ()
file_payload(self, record) == format_log_string(record)

\* File::write of buf reporting n: the first n bytes are appended (none on Err)
file_written(fs, path, buf, n) ==
    IF n < 0 THEN fs
    ELSE [fs EXCEPT ![path].content = @ \o Prefix(buf, n)]

\* Logger::log run on record as a whole: the terminal write, then the file
\* write; println! panics when stdout fails and .unwrap () when the write fails
LogOutcome(self, record, term_ok, n) ==
    LET buf == file_payload(self, record)
        toTerm == log_writes_terminal(self)
        termPanic == toTerm /\ ~term_ok
        toFile == log_writes_file(self) /\ ~termPanic
    IN  [out   |-> IF toTerm /\ term_ok
                   THEN println(stdout, TermLine(self.config, record))
                   ELSE stdout,
         fs    |-> IF toFile
                   THEN file_written(files, self.log_output_buffer, buf, n)
                   ELSE files,
         term  |-> IF ~toTerm THEN "none" ELSE IF term_ok THEN "ok" ELSE "failed",
         file  |-> IF ~toFile THEN "none"
                   ELSE IF n < 0 THEN "failed"
                   ELSE IF n < Len(buf) THEN "short" ELSE "ok",
         res   |-> IF termPanic \/ (toFile /\ n < 0) THEN "panic" ELSE "ok"]

(***************************************************************************)
(* Spec: one action per call                                               *)
(***************************************************************************)
\* init (config) while a logger is or was installed, or is being installed:
\* set_logger returns Err (SetLoggerError) before it runs the closure, the only
\* reader of config, so the call does the same whatever config is
init_refused ==
    /\ ~set_logger_may_install(LOG_STATE)
    /\ last' = [op |-> "init", res |-> "err"]
    /\ UNCHANGED <<globals, hist>>
    /\ UNCHANGED threadVars

\* init (config) from UNINITIALIZED: the closure runs
init(config) ==
    /\ set_logger_may_install(LOG_STATE)
    /\ MAX_LOG_LEVEL_FILTER' = max_log_level_set(config)
    /\ IF file_create_ok(config)
       THEN /\ files' = file_created(files, config.log_output_path)
            /\ handles' = handles + 1
            /\ LOGGER' = Logger(config)
            /\ LOG_STATE' = "INITIALIZED"
            /\ last' = [op |-> "init", res |-> "ok", config |-> config]
            /\ hist' = [life |-> "installed", config |-> config,
                        accepted |-> <<>>, panicked |-> FALSE]
       ELSE \* .unwrap () panics inside the closure, LOG_STATE left as it is
            /\ LOG_STATE' = "INITIALIZING"
            /\ last' = [op |-> "init", res |-> "panic", config |-> config]
            /\ UNCHANGED <<files, handles, LOGGER, hist>>
    /\ UNCHANGED <<REFCOUNT, stdout>>
    /\ UNCHANGED threadVars

\* a release that reports success and leaves the logger installed
release_without_shutdown ==
    /\ last' = [op |-> "release", res |-> "ok"]
    /\ hist' = [hist EXCEPT !.life = "released"]
    /\ UNCHANGED globals
    /\ UNCHANGED threadVars

\* release ()
release ==
    /\ MAX_LOG_LEVEL_FILTER' = 0
    /\ IF LOG_STATE = "INITIALIZED"
       THEN \* Ok (logger): dropped, which closes its file
            /\ LOG_STATE' = state_after_shutdown
            /\ LOGGER' = NopLogger
            /\ handles' = handles - 1
            /\ last' = [op |-> "release", res |-> "ok"]
            /\ hist' = [hist EXCEPT !.life = "released"]
       ELSE \* Err (ShutdownLoggerError), and .unwrap () panics
            /\ last' = [op |-> "release", res |-> "panic"]
            /\ UNCHANGED <<LOG_STATE, LOGGER, handles, hist>>
    /\ UNCHANGED <<REFCOUNT, files, stdout>>
    /\ UNCHANGED threadVars

\* whether an event of this level gets to Logger::log
Logged(level) ==
    /\ macro_level_passes(level, MAX_LOG_LEVEL_FILTER)
    /\ logger_available(LOG_STATE)
    /\ LOGGER.kind = "Logger"

\* trace! / debug! / info! / warn! / error! with the outcomes of its writes
emit(record, term_ok, n) ==
    /\ Len(hist.accepted) < MaxEmits
    /\ IF Logged(record.level)
       THEN LET o == LogOutcome(LOGGER, record, term_ok, n)
            IN  /\ stdout' = o.out
                /\ files' = o.fs
                /\ last' = [op |-> "emit", record |-> record, logged |-> TRUE,
                            term |-> o.term, file |-> o.file, res |-> o.res]
                /\ hist' = [hist EXCEPT !.accepted = Append(@, record),
                                        !.panicked = @ \/ o.res = "panic"]
       ELSE /\ last' = [op |-> "emit", record |-> record, logged |-> FALSE,
                        term |-> "none", file |-> "none", res |-> "ok"]
            /\ UNCHANGED <<stdout, files, hist>>
    /\ UNCHANGED <<LOG_STATE, MAX_LOG_LEVEL_FILTER, LOGGER, REFCOUNT, handles>>
    /\ UNCHANGED threadVars

\* the writes an event of this level makes, each with its possible outcomes
TermOutcomes(level) ==
    IF Logged(level) /\ log_writes_terminal(LOGGER) THEN TermResults ELSE {TRUE}

FileOutcomes(record, term_ok) ==
    IF Logged(record.level) /\ log_writes_file(LOGGER)
       /\ (log_writes_terminal(LOGGER) => term_ok)
    THEN WriteResults(Len(file_payload(LOGGER, record)))
    ELSE {Len(format_log_string(record))}

InitCall ==
    \/ init_refused
    \/ \E config \in LogConfig : init(config)

EmitCall ==
    \E record \in LogRecord :
        \E term_ok \in TermOutcomes(record.level) :
            \E n \in FileOutcomes(record, term_ok) :
                emit(record, term_ok, n)

Next ==
    \/ InitCall
    \/ release
    \/ EmitCall

Spec == Init /\ [][Next]_vars

(***************************************************************************)
(* SpecConc: the calls issued by threads, one action per atomic step       *)
(***************************************************************************)
\* the configurations and the events the threads use
ConcConfigs ==
    {LogConfigNew,
     [log_to_io |-> TRUE, log_to_file |-> TRUE, log_output_path |-> "log.txt",
      coloured_output |-> FALSE, max_log_level |-> "Info"],
     [log_to_io |-> FALSE, log_to_file |-> TRUE, log_output_path |-> "log.txt",
      coloured_output |-> FALSE, max_log_level |-> "Trace"]}

ConcRecords ==
    {r \in LogRecord : r.level = "Warn"}

Goto(t, label) == pc' = [pc EXCEPT ![t] = label]

Config(t) == loc[t].config

\* a thread calls init (config)
StartInit(t, config) ==
    /\ pc[t] = "idle" /\ calls[t] < MaxThreadCalls
    /\ calls' = [calls EXCEPT ![t] = @ + 1]
    /\ loc' = [loc EXCEPT ![t] = [op |-> "init", config |-> config]]
    /\ Goto(t, "set_logger")
    /\ UNCHANGED <<globals, last, hist, tally>>

\* set_logger: STATE.compare_and_swap (UNINITIALIZED, INITIALIZING), Err if lost
SetLoggerCas(t) ==
    /\ pc[t] = "set_logger"
    /\ IF set_logger_may_install(LOG_STATE)
       THEN /\ LOG_STATE' = "INITIALIZING"
            /\ Goto(t, "closure_set_level")
            /\ UNCHANGED tally
       ELSE /\ tally' = [tally EXCEPT !.init_err = @ + 1]
            /\ Goto(t, "idle")
            /\ UNCHANGED LOG_STATE
    /\ UNCHANGED <<MAX_LOG_LEVEL_FILTER, LOGGER, REFCOUNT, files, stdout, handles,
                   last, hist, loc, calls>>

\* the closure: max_log_level.set (config.max_log_level)
ClosureSetLevel(t) ==
    /\ pc[t] = "closure_set_level"
    /\ MAX_LOG_LEVEL_FILTER' = max_log_level_set(Config(t))
    /\ Goto(t, "closure_create")
    /\ UNCHANGED <<LOG_STATE, LOGGER, REFCOUNT, files, stdout, handles,
                   last, hist, loc, calls, tally>>

\* the closure: File::create (..).unwrap (); a panic ends the thread
ClosureCreate(t) ==
    /\ pc[t] = "closure_create"
    /\ IF file_create_ok(Config(t))
       THEN /\ files' = file_created(files, Config(t).log_output_path)
            /\ handles' = handles + 1
            /\ Goto(t, "store_logger")
            /\ UNCHANGED tally
       ELSE /\ tally' = [tally EXCEPT !.init_panic = @ + 1]
            /\ Goto(t, "panicked")
            /\ UNCHANGED <<files, handles>>
    /\ UNCHANGED <<LOG_STATE, MAX_LOG_LEVEL_FILTER, LOGGER, REFCOUNT, stdout,
                   last, hist, loc, calls>>

\* set_logger: LOGGER = make_logger (..)
StoreLogger(t) ==
    /\ pc[t] = "store_logger"
    /\ LOGGER' = Logger(Config(t))
    /\ Goto(t, "store_state")
    /\ UNCHANGED <<LOG_STATE, MAX_LOG_LEVEL_FILTER, REFCOUNT, files, stdout, handles,
                   last, hist, loc, calls, tally>>

\* set_logger: STATE.store (INITIALIZED); Ok (())
StoreState(t) ==
    /\ pc[t] = "store_state"
    /\ LOG_STATE' = "INITIALIZED"
    /\ tally' = [tally EXCEPT !.init_ok = @ + 1]
    /\ Goto(t, "idle")
    /\ UNCHANGED <<MAX_LOG_LEVEL_FILTER, LOGGER, REFCOUNT, files, stdout, handles,
                   last, hist, loc, calls>>

\* a thread calls release ()
StartRelease(t) ==
    /\ pc[t] = "idle" /\ calls[t] < MaxThreadCalls
    /\ calls' = [calls EXCEPT ![t] = @ + 1]
    /\ loc' = [loc EXCEPT ![t] = [op |-> "release"]]
    /\ tally' = [tally EXCEPT !.release_started = TRUE]
    /\ Goto(t, "shutdown_set_level")
    /\ UNCHANGED <<globals, last, hist>>

\* shutdown_logger: MAX_LOG_LEVEL_FILTER.store (0)
ShutdownSetLevel(t) ==
    /\ pc[t] = "shutdown_set_level"
    /\ MAX_LOG_LEVEL_FILTER' = 0
    /\ Goto(t, "shutdown_cas")
    /\ UNCHANGED <<LOG_STATE, LOGGER, REFCOUNT, files, stdout, handles,
                   last, hist, loc, calls, tally>>

\* shutdown_logger: STATE.compare_and_swap (INITIALIZED, INITIALIZING); on Err
\* the .unwrap () of release panics
ShutdownCas(t) ==
    /\ pc[t] = "shutdown_cas"
    /\ IF LOG_STATE = "INITIALIZED"
       THEN LOG_STATE' = state_after_shutdown /\ Goto(t, "shutdown_wait")
       ELSE UNCHANGED LOG_STATE /\ Goto(t, "panicked")
    /\ UNCHANGED <<MAX_LOG_LEVEL_FILTER, LOGGER, REFCOUNT, files, stdout, handles,
                   last, hist, loc, calls, tally>>

\* shutdown_logger: spin until REFCOUNT is 0, then take LOGGER
ShutdownWait(t) ==
    /\ pc[t] = "shutdown_wait"
    /\ REFCOUNT = 0
    /\ LOGGER' = NopLogger
    /\ Goto(t, "drop_logger")
    /\ UNCHANGED <<LOG_STATE, MAX_LOG_LEVEL_FILTER, REFCOUNT, files, stdout, handles,
                   last, hist, loc, calls, tally>>

\* drop (logger): the BufWriter is flushed (it is empty) and the File closed
DropLogger(t) ==
    /\ pc[t] = "drop_logger"
    /\ handles' = handles - 1
    /\ Goto(t, "idle")
    /\ UNCHANGED <<LOG_STATE, MAX_LOG_LEVEL_FILTER, LOGGER, REFCOUNT, files, stdout,
                   last, hist, loc, calls, tally>>

\* a thread reaches a logging macro
StartEmit(t, record) ==
    /\ pc[t] = "idle" /\ calls[t] < MaxThreadCalls
    /\ calls' = [calls EXCEPT ![t] = @ + 1]
    /\ loc' = [loc EXCEPT ![t] = [op |-> "emit", record |-> record]]
    /\ Goto(t, "macro_check")
    /\ UNCHANGED <<globals, last, hist, tally>>

\* the macro: lvl <= log::max_log_level ()
MacroCheck(t) ==
    /\ pc[t] = "macro_check"
    /\ IF macro_level_passes(loc[t].record.level, MAX_LOG_LEVEL_FILTER)
       THEN Goto(t, "guard_inc")
       ELSE Goto(t, "idle")
    /\ UNCHANGED <<globals, last, hist, loc, calls, tally>>

\* logger (): REFCOUNT.fetch_add (1)
GuardInc(t) ==
    /\ pc[t] = "guard_inc"
    /\ REFCOUNT' = REFCOUNT + 1
    /\ Goto(t, "guard_state")
    /\ UNCHANGED <<LOG_STATE, MAX_LOG_LEVEL_FILTER, LOGGER, files, stdout, handles,
                   last, hist, loc, calls, tally>>

\* logger (): the guard is given only while INITIALIZED
GuardState(t) ==
    /\ pc[t] = "guard_state"
    /\ IF logger_available(LOG_STATE)
       THEN Goto(t, "log") /\ UNCHANGED REFCOUNT
       ELSE Goto(t, "idle") /\ REFCOUNT' = REFCOUNT - 1
    /\ UNCHANGED <<LOG_STATE, MAX_LOG_LEVEL_FILTER, LOGGER, files, stdout, handles,
                   last, hist, loc, calls, tally>>

\* Logger::log under the guard, which is dropped on return and on unwinding
Log(t, term_ok, n) ==
    /\ pc[t] = "log"
    /\ LET o == LogOutcome(LOGGER, loc[t].record, term_ok, n)
       IN  /\ stdout' = o.out
           /\ files' = o.fs
           /\ IF o.res = "panic" THEN Goto(t, "panicked") ELSE Goto(t, "idle")
    /\ REFCOUNT' = REFCOUNT - 1
    /\ UNCHANGED <<LOG_STATE, MAX_LOG_LEVEL_FILTER, LOGGER, handles,
                   last, hist, loc, calls, tally>>

LogStep(t) ==
    /\ pc[t] = "log"
    /\ \E term_ok \in TermResults :
           \E n \in WriteResults(Len(file_payload(LOGGER, loc[t].record))) :
               Log(t, term_ok, n)

NextConc ==
    \E t \in Threads :
        \/ \E config \in ConcConfigs : StartInit(t, config)
        \/ SetLoggerCas(t)
        \/ ClosureSetLevel(t)
        \/ ClosureCreate(t)
        \/ StoreLogger(t)
        \/ StoreState(t)
        \/ StartRelease(t)
        \/ ShutdownSetLevel(t)
        \/ ShutdownCas(t)
        \/ ShutdownWait(t)
        \/ DropLogger(t)
        \/ \E record \in ConcRecords : StartEmit(t, record)
        \/ MacroCheck(t)
        \/ GuardInc(t)
        \/ GuardState(t)
        \/ LogStep(t)

SpecConc == Init /\ [][NextConc]_vars

(***************************************************************************)
(* Properties                                                              *)
(*                                                                         *)
(* Every call sets last to its own record, so a step with last'.op = "x"   *)
(* is a call of x; hist is what the callers were told: the configuration   *)
(* of the init that returned Ok, and whether a release returned since.     *)
(***************************************************************************)
LogPath == hist.config.log_output_path

RECURSIVE Records(_)
\* the formatted lines of a sequence of events, one after the other
Records(events) ==
    IF events = <<>> THEN <<>>
    ELSE format_log_string(Head(events)) \o Records(Tail(events))

C2_SecondInitRefused ==
    [][ /\ last'.op = "init" /\ hist.life = "installed" =>
              /\ last'.res = "err"
              /\ UNCHANGED <<LOG_STATE, MAX_LOG_LEVEL_FILTER, LOGGER, files, stdout,
                             handles, hist>>
        /\ hist'.life = "installed" =>
              /\ LOG_STATE' = "INITIALIZED"
              /\ LOGGER' = Logger(hist'.config)
              /\ MAX_LOG_LEVEL_FILTER' = LevelOrd(hist'.config.max_log_level)
              /\ handles' = 1
      ]_vars

\* C2 witness: a second init has just been refused while the file holds the
\* line of an event logged under the first configuration
C2_Witness ==
    /\ last.op = "init" /\ last.res = "err"
    /\ hist.life = "installed" /\ hist.config.log_to_file
    /\ hist.accepted # <<>>
    /\ files[LogPath].content = Records(hist.accepted)

C4_Original ==
    [][ last'.op = "release" /\ hist.life # "installed" =>
          /\ last'.res = "err"
          /\ UNCHANGED <<LOG_STATE, LOGGER, hist>>
      ]_vars

\* C5 as stated: init with the file sink enabled and a file that cannot be
\* created returns a failure (no panic) and installs nothing: state, threshold,
\* logger and files are unchanged, so a later init can still succeed
C5_Original ==
    [][ /\ last'.op = "init"
        /\ set_logger_may_install(LOG_STATE)
        /\ last'.config.log_to_file
        /\ ~file_create_ok(last'.config)
        => /\ last'.res = "err"
           /\ UNCHANGED <<LOG_STATE, MAX_LOG_LEVEL_FILTER, LOGGER, files, stdout,
                          handles, hist>>
      ]_vars

\* C6 as stated: with the file sink disabled init touches no file whatever the
\* path, so it succeeds when no logger is installed yet, and no event writes
\* to a file
C6_Original ==
    [][ /\ last'.op = "init"
           /\ set_logger_may_install(LOG_STATE)
           /\ ~last'.config.log_to_file
           => last'.res = "ok" /\ UNCHANGED files
        /\ last'.op = "emit" /\ hist.life = "installed" /\ ~hist.config.log_to_file
           => UNCHANGED files
      ]_vars

\* C7 as stated: for an accepted event with both sinks enabled, both writes are
\* attempted whatever the other's outcome, and the log call returns normally
C7_Original ==
    last.op = "emit" /\ last.logged /\ hist.config.log_to_io /\ hist.config.log_to_file
    => /\ last.res = "ok"
       /\ last.term # "none"
       /\ last.file # "none"

\* C8 as stated: with the file sink enabled, the output file holds exactly the
\* formatted lines of the events accepted since init, in order, with no colour
\* code, also after release (taken here only over runs where no log call
\* panicked)
C8_Original ==
    /\ hist.life \in {"installed", "released"}
    /\ hist.config.log_to_file
    /\ ~hist.panicked
    => /\ files[LogPath].content = Records(hist.accepted)
       /\ \A i \in 1..Len(files[LogPath].content) :
             files[LogPath].content[i] \notin ColourCodes

\* C9: while no logger is installed (before the first successful init, after
\* an init that failed, after a release) an event of any level is dropped: it
\* does not reach Logger::log, prints nothing, writes no file, and the
\* call returns normally.
C9_DroppedWhenNotInstalled ==
    [][ last'.op = "emit" /\ hist.life # "installed" =>
          /\ ~last'.logged
          /\ last'.res = "ok"
          /\ UNCHANGED <<stdout, files>>
      ]_vars

\* C9 witness: after an init that panicked on File::create, the threshold it
\* set lets the event pass the macro's level check, and the event was dropped
C9_Witness ==
    /\ hist.life = "fresh" /\ LOG_STATE = "INITIALIZING"
    /\ last.op = "emit" /\ ~last.logged
    /\ macro_level_passes(last.record.level, MAX_LOG_LEVEL_FILTER)
    /\ stdout = <<>>

InInit(t) ==
    pc[t] \in {"set_logger", "closure_set_level", "closure_create", "store_logger",
               "store_state"}

InitsFinished == tally.init_ok + tally.init_err + tally.init_panic

\* C10 as stated: under every interleaving at most one Logger holds a handle
\* to the output file, and of the init calls that raced with no release, once
\* all have returned, exactly one succeeded, the others returned an error, and
\* the winner's configuration is the one in force (threshold set, file created)
C10_Original ==
    /\ handles <= 1
    /\ (\A t \in Threads : ~InInit(t)) /\ ~tally.release_started /\ InitsFinished > 1
       => /\ tally.init_ok = 1
          /\ tally.init_panic = 0
          /\ tally.init_err = InitsFinished - 1
          /\ LOGGER.kind = "Logger"
          /\ MAX_LOG_LEVEL_FILTER = LevelOrd(LOGGER.config.max_log_level)
          /\ files[LOGGER.log_output_buffer].content # <<"old">>

\* What does hold of the racing calls: one thread at most is between the
\* compare-and-swap of set_logger and its final store, one Logger at most holds
\* a file handle, one init at most ever returns Ok, and every other init that
\* has returned got an error or panicked on File::create
ConcMutualExclusion ==
    /\ Cardinality({t \in Threads : InInit(t) /\ pc[t] # "set_logger"}) <= 1
    /\ handles <= 1
    /\ tally.init_ok + tally.init_panic <= 1
    /\ LOG_STATE = "INITIALIZED" => LOGGER.kind = "Logger" /\ handles = 1

=============================================================================
